---------------------------- MODULE Spec2Model ----------------------------
(***************************************************************************)
(* A model of the metric core of rillrate:                                 *)
(*   - HistogramMetric / HistogramState (rill-protocol/src/data/histogram.rs)*)
(*   - LogRecord / LogState             (rill/src/tracers/logger.rs)       *)
(*   - Tracer<T> in Push and Pull mode  (rill-engine/src/tracers/tracer.rs)*)
(*   - the RillRate supervisor          (rillrate/src/supervisor.rs)       *)
(*                                                                         *)
(* The specifications share the module: SpecHistogram, SpecLog, Spec (the  *)
(* tracer), SpecPull and SpecPullFair (Pull mode step by step) and         *)
(* SpecSupervisor.  Each one moves only its own variables and leaves the   *)
(* others at their initial value.                                          *)
(***************************************************************************)
EXTENDS Integers, Sequences, FiniteSets, TLC

VARIABLES
    \* ---- histogram ----
    hLevels,    \* the `levels` slice given to HistogramState::new
    hState,     \* the HistogramState: [buckets, total]
    hEvents,    \* the values of the Add events applied so far, in order
    \* ---- log ----
    logRecords, \* LogState.records (VecDeque<RillEvent>), front first
    logCount,   \* number of LogRecord::aggregate calls so far
    logSnap,    \* the Vec returned by the last to_snapshot call
    logSnapAt,  \* logCount at the time of that call (-1: never called)
    \* ---- tracers (one entry per tracer) ----
    mode,       \* InnerMode of the Tracer: "Push", "Pull"; "None": not built
    tracers,    \* the live Tracer values: the original and its clones
    active,     \* the value seen through the watch::Receiver<bool>
    chan,       \* Push: the queue of the mpsc::unbounded channel
    rxHeld,     \* Push: the DataReceiver is alive (held by the engine)
    pullState,  \* Pull: the T::State inside the Arc<Mutex<..>>
    poisoned,   \* Pull: the Mutex is poisoned
    weakHeld,   \* Pull: the engine holds the Weak<Mutex<..>>
    registered, \* RILL_LINK.register_tracer returned Ok
    regLog,     \* the register_tracer calls made: what was handed to the link
    newArgs,    \* the arguments of the Tracer::new call: [path, pull]
    engineState,\* Push: TracerMode::Push.state, as folded by the engine
    received,   \* Push: the events the consumer has dequeued, in order
    accepted,   \* the events whose send/apply completed, in order
    calls,      \* number of Tracer::send calls made so far
    last,       \* the last Tracer::send call and what it did
    \* ---- Pull mode, step by step (one entry per metric or thread) ----
    lockHolder, \* the thread that holds the Mutex of the metric's state
    shared,     \* the T::State inside the Mutex
    pc,         \* where each thread is in its record or poll call
    job,        \* the metric and the amount of the call a thread is in
    applied,    \* the events whose apply has completed, in order
    snapshot,   \* the last copy the collector took: [metric, state]
    started,    \* number of record calls started
    \* ---- the RillRate supervisor ----
    supPc,      \* the handler the actor is in, or "idle" between handlers
    configTask, \* the ReadConfigFile task: "none", "running", "done"
    configResult, \* what the task ended with
    nodeMode,   \* is_node_specified(): "remote", "local"; "unknown" before
    child,      \* each child actor: "none", "running", "finished", "reaped"
    spawns,     \* number of spawn_actor calls for each child
    recvd,      \* the endpoints the handler has received from the server
    shutdown,   \* ctx.shutdown() has been called
    handled     \* the handlers that have run

histVars   == <<hLevels, hState, hEvents>>
logVars    == <<logRecords, logCount, logSnap, logSnapAt>>
tracerVars == <<mode, tracers, active, chan, rxHeld, pullState, poisoned,
                weakHeld, registered, regLog, newArgs, engineState, received,
                accepted, calls, last>>
pullVars   == <<lockHolder, shared, pc, job, applied, snapshot, started>>
supVars    == <<supPc, configTask, configResult, nodeMode, child, spawns,
                recvd, shutdown, handled>>
vars       == <<histVars, logVars, tracerVars, pullVars, supVars>>

(***************************************************************************)
(* f64 values.  A finite value is modelled by an integer (f64 represents   *)
(* integers of magnitude below 2^53 exactly, and adds them exactly); the   *)
(* three special values are sentinels placed so that the integer order on  *)
(* the encoding is the total order of OrderedFloat<f64>:                   *)
(*     -inf < finite < +inf < NaN                                          *)
(***************************************************************************)
INFINITY     == 1000000
NEG_INFINITY == -INFINITY
NAN          == INFINITY + 1

\* impl Ord for OrderedFloat<f64>: NaN is equal to itself and greater than
\* every other value, +inf included.
OrdLe(a, b) == a <= b

\* f64 addition (IEEE-754) on the encoding.
FAdd(a, b) ==
    IF a = NAN \/ b = NAN THEN NAN
    ELSE IF a = INFINITY THEN (IF b = NEG_INFINITY THEN NAN ELSE INFINITY)
    ELSE IF a = NEG_INFINITY THEN (IF b = INFINITY THEN NAN ELSE NEG_INFINITY)
    ELSE IF b = INFINITY \/ b = NEG_INFINITY THEN b
    ELSE a + b

\* ---- bounds of the histogram specification ----
MaxLevels == 2      \* length of the `levels` slice
MaxAdds   == 3      \* number of Add events
LevelVals == {2, 10, INFINITY, NAN}
AddVals   == {NEG_INFINITY, 1, 2, 6, 200, INFINITY, NAN}

SeqsUpTo(S, n) == UNION {[1..k -> S] : k \in 0..n}
Range(s) == {s[i] : i \in DOMAIN s}
MinOf(S) == CHOOSE x \in S : \A y \in S : x <= y

(***************************************************************************)
(* Stat                                                                    *)
(***************************************************************************)
StatDefault == [sum |-> 0, count |-> 0]

\* Stat::add.  count is a u64; the model's counts stay far below 2^64.
StatAdd(stat, value) ==
    [sum |-> FAdd(stat.sum, value), count |-> stat.count + 1]

\* A slip: the +infinity entry is not added.
HistogramNewNoInf(levels) ==
    [buckets |-> [l \in Range(levels) |-> StatDefault],
     total   |-> StatDefault]

(***************************************************************************)
(* HistogramState::new: the levels collected into a BTreeMap (duplicates   *)
(* collapse), then entry(+inf).or_default().                               *)
(***************************************************************************)
HistogramNew(levels) ==
    [buckets |-> [l \in Range(levels) \cup {INFINITY} |-> StatDefault],
     total   |-> StatDefault]

(***************************************************************************)
(* The `for (level, stat) in &mut state.buckets` loop of apply: BTreeMap   *)
(* iteration is ascending in the key order; `todo` are the keys not yet    *)
(* visited.  The first key with expected <= level is updated, then break.  *)
(***************************************************************************)
RECURSIVE ScanBuckets(_, _, _)
ScanBuckets(buckets, todo, amount) ==
    IF todo = {} THEN buckets
    ELSE LET level == MinOf(todo) IN
         IF OrdLe(amount, level)
         THEN [buckets EXCEPT ![level] = StatAdd(@, amount)]
         ELSE ScanBuckets(buckets, todo \ {level}, amount)

\* HistogramMetric::apply for HistogramEvent::Add(amount).
HistApply(state, amount) ==
    [total   |-> StatAdd(state.total, amount),
     buckets |-> ScanBuckets(state.buckets, DOMAIN state.buckets, amount)]

(***************************************************************************)
(* Log                                                                     *)
(***************************************************************************)
FRAME_SIZE == 20
MaxLogged  == 23    \* number of aggregate calls

\* RillEvent { timestamp, data: RillData::LogRecord { message } }
RillEvent(timestamp, msg) == [timestamp |-> timestamp, message |-> msg]

\* LogRecord::aggregate for Self::Message(msg): the new contents of
\* state.records.
LogAggregate(records, msg, timestamp) ==
    LET kept == IF Len(records) > FRAME_SIZE THEN Tail(records) ELSE records
    IN  Append(kept, RillEvent(timestamp, msg))

\* LogRecord::to_snapshot: state.records.iter().cloned().collect()
ToSnapshot(records) == records

(***************************************************************************)
(* Tracer<T>, with T = HistogramMetric                                     *)
(***************************************************************************)
TracerIds    == {"a"}           \* the tracers the application builds
MaxHandles   == 2               \* live Tracer values: the original and clones
EventVals    == {1, 6, 200}     \* the amounts of the Add events recorded
TracerLevels == <<2, 10>>       \* the levels of each tracer's histogram
MaxSends     == 4               \* number of Tracer::send calls

\* SystemTime values, as an offset from SystemTime::UNIX_EPOCH.
UNIX_EPOCH  == 0
SystemTimes == {-1, 1}
\* Option<SystemTime>: None is <<>>, Some(t) is <<t>>.
OptTimes    == {<<>>} \cup {<<t>> : t \in SystemTimes}

\* unwrap_or_else is lazy: SystemTime::now() is read only for None.
ClockReads(opt) == IF opt = <<>> THEN SystemTimes ELSE {UNIX_EPOCH}

\* The `state: T::State` argument of Tracer::new.
InitialState == HistogramNew(TracerLevels)

\* opt_system_time.unwrap_or_else(SystemTime::now)
\*     .duration_since(SystemTime::UNIX_EPOCH).map(Timestamp::from)
\* Err when the time lies before the epoch.
MakeTimestamp(opt, now) ==
    LET st == IF opt = <<>> THEN now ELSE opt[1]
    IN  IF st >= UNIX_EPOCH THEN [ok |-> TRUE, timestamp |-> st - UNIX_EPOCH]
                            ELSE [ok |-> FALSE, timestamp |-> 0]

\* TimedEvent { timestamp, event } inside a DataEnvelope::Event.  seq (the
\* number of the send call that made it) is not in the code: it tells apart
\* events that are otherwise equal.
TimedEvent(timestamp, amount, seq) ==
    [timestamp |-> timestamp, event |-> amount, seq |-> seq]

\* A slip: the envelope is put at the head of the queue.
PushSendFront(queue, rxAlive, envelope) ==
    IF rxAlive THEN [chan |-> <<envelope>> \o queue, result |-> "sent"]
               ELSE [chan |-> queue, result |-> "send_err"]

\* A slip: the envelope is queued although the receiver is gone.
PushSendAlways(queue, rxAlive, envelope) ==
    [chan |-> Append(queue, envelope), result |-> "sent"]

\* A slip: the envelope is queued twice.
PushSendTwice(queue, rxAlive, envelope) ==
    IF rxAlive THEN [chan |-> queue \o <<envelope, envelope>>, result |-> "sent"]
               ELSE [chan |-> queue, result |-> "send_err"]

\* A slip: an envelope whose send failed is kept in the queue for a retry.
PushSendRetry(queue, rxAlive, envelope) ==
    IF rxAlive THEN [chan |-> Append(queue, envelope), result |-> "sent"]
               ELSE [chan |-> Append(queue, envelope), result |-> "send_err"]

\* InnerMode::Push: sender.unbounded_send(envelope).  The send fails only
\* when the receiver is gone; the error is logged and the envelope dropped.
PushSend(queue, rxAlive, envelope) ==
    IF rxAlive THEN [chan |-> Append(queue, envelope), result |-> "sent"]
               ELSE [chan |-> queue, result |-> "send_err"]

\* A slip: a poisoned lock is entered all the same.
PullRecordPoisoned(state, isPoisoned, engineHolds, timedEvent) ==
    [state |-> HistApply(state, timedEvent.event), result |-> "applied"]

\* The behaviour the specification describes: the tracer holds the weak
\* reference and applies only while the engine holds the state.
PullRecordIfEngine(state, isPoisoned, engineHolds, timedEvent) ==
    IF isPoisoned THEN [state |-> state, result |-> "lock_err"]
    ELSE IF engineHolds
         THEN [state |-> HistApply(state, timedEvent.event), result |-> "applied"]
         ELSE [state |-> state, result |-> "applied"]

\* InnerMode::Pull: match state.lock() { Ok => T::apply(state, timed_event),
\* Err => log }.  The tracer owns the Arc, so the state is always there;
\* whether the engine still holds its Weak (engineHolds) is not looked at.
PullRecord(state, isPoisoned, engineHolds, timedEvent) ==
    IF isPoisoned THEN [state |-> state, result |-> "lock_err"]
    ELSE [state |-> HistApply(state, timedEvent.event), result |-> "applied"]

\* The engine folds T::apply over a drained batch, in drain order.
RECURSIVE Fold(_, _)
Fold(state, batch) ==
    IF batch = <<>> THEN state
    ELSE Fold(HistApply(state, Head(batch).event), Tail(batch))

\* The value of `last` before any send call.  held: the engine held the
\* tracer's receiver or Weak when the call was made.
NoCall == [t |-> "-", tsOk |-> TRUE, held |-> FALSE, result |-> "none"]

\* RILL_LINK.register_tracer(description, mode): Ok when the engine's link
\* is installed, and the engine then keeps `mode`; Err otherwise, and `mode`
\* (moved into the call) is dropped.
RegisterTracer(linkUp) == [ok |-> linkUp, engineKeepsMode |-> linkUp]

(***************************************************************************)
(* The Tracer value: struct Tracer { active, description, mode }.  active  *)
(* names the watch channel the Receiver reads, mode.target the channel     *)
(* (Push) or the state (Pull) the sender or the Arc points to.             *)
(***************************************************************************)
Paths == {"app.latency", "app.size"}

\* HistogramMetric::stream_type()
HistogramStreamType == "rillrate.histogram.v0"

\* format!("{} - {}", path, stream_type)
FormatInfo(path, stream_type) == <<path, " - ", stream_type>>

\* A slip: the info string is handed over as the stream type.
NewDescriptionInfoAsType(path) ==
    [path        |-> path,
     info        |-> FormatInfo(path, HistogramStreamType),
     stream_type |-> FormatInfo(path, HistogramStreamType)]

\* The Description built by Tracer::new.
NewDescription(path) ==
    [path        |-> path,
     info        |-> FormatInfo(path, HistogramStreamType),
     stream_type |-> HistogramStreamType]

\* A slip: the initial value of the watch channel is false.
ActiveInitialFalse == FALSE

\* watch::channel(true): the value every Receiver sees; the only Sender is
\* dropped when Tracer::new returns.
ActiveInitial == TRUE

\* A slip: the pull interval is ignored.
NewModesPushOnly(pull, t) ==
    [mode       |-> "Push",
     inner_mode |-> [kind |-> "Push", target |-> t]]

\* The branch of Tracer::new on `pull`: the TracerMode handed to the link and
\* the InnerMode kept in the Tracer; t names the channel or state created.
NewModes(pull, t) ==
    IF pull
    THEN [mode       |-> "Pull",
          inner_mode |-> [kind |-> "Pull", target |-> t]]
    ELSE [mode       |-> "Push",
          inner_mode |-> [kind |-> "Push", target |-> t]]

\* A slip: the clone gets a channel or state of its own.
CloneInnerModeFresh(m) == [kind |-> m.kind, target |-> "fresh"]

\* impl Clone for InnerMode: sender.clone() or state.clone() (Arc).
CloneInnerMode(m) ==
    IF m.kind = "Push"
    THEN [kind |-> "Push", target |-> m.target]
    ELSE [kind |-> "Pull", target |-> m.target]

\* impl Clone for Tracer
CloneTracer(tr) ==
    [active      |-> tr.active,
     description |-> tr.description,
     mode        |-> CloneInnerMode(tr.mode)]

\* Tracer::path
Path(tr) == tr.description.path

\* The number of live Tracer values of each tracer.
handles == [t \in TracerIds |-> Len(tracers[t])]

\* The sequence s without its h-th element.
RemoveAt(s, h) == SubSeq(s, 1, h - 1) \o SubSeq(s, h + 1, Len(s))

\* newArgs of a tracer that has not been built.
NoArgs == [path |-> "-", pull |-> FALSE]

(***************************************************************************)
(* Pull mode step by step: recorder threads call Tracer::send on Pull      *)
(* tracers, each call locking the Mutex of its metric, applying the event  *)
(* in the two steps of HistogramMetric::apply, and dropping the guard; the *)
(* collector locks a metric, copies its state and unlocks.                 *)
(***************************************************************************)
Recorders  == {"r1", "r2"}
Collector  == "collector"
Threads    == Recorders \cup {Collector}
Metrics    == {"x", "y"}
Amounts    == {1, 6}            \* the amounts recorded
MaxRecords == 2                 \* number of record calls started
NoThread   == "none"

\* A slip: the lock is entered without waiting for its holder.
LockFreeAlways(holder) == TRUE

\* state.lock(): the call returns once no thread holds the Mutex.
LockFree(holder) == holder = NoThread

\* A slip: the guard is leaked, the Mutex stays locked.
GuardLeak(holder) == holder

\* The MutexGuard goes out of scope at the end of the match arm.
GuardDrop(holder) == NoThread

\* state.total.add(amount)
ApplyTotal(state, amount) ==
    [state EXCEPT !.total = StatAdd(@, amount)]

\* the bucket loop of apply
ApplyBuckets(state, amount) ==
    [state EXCEPT !.buckets = ScanBuckets(@, DOMAIN @, amount)]

NoJob == [metric |-> "-", amount |-> 0]
NoSnapshot == [metric |-> "-", state |-> InitialState]

PullInit ==
    /\ lockHolder = [m \in Metrics |-> NoThread]
    /\ shared = [m \in Metrics |-> InitialState]
    /\ pc = [th \in Threads |-> "idle"]
    /\ job = [th \in Threads |-> NoJob]
    /\ applied = [m \in Metrics |-> <<>>]
    /\ snapshot = NoSnapshot
    /\ started = 0

(***************************************************************************)
(* The RillRate supervisor (rillrate/src/supervisor.rs).                   *)
(***************************************************************************)
Children == {"engine", "server", "exporter"}
ConfigResults == {"config", "no_config", "error"}
Endpoints == {"public", "private", "address"}

\* InterruptedBy<System>: ctx.shutdown()
OnInterrupted(sd) == TRUE

\* Eliminated<RillEngine>: ctx.shutdown()
OnEngineEliminated(sd) == TRUE

\* A slip: the exporter's end shuts the supervisor down as well.
OnExportEliminatedShutdown(sd) == TRUE

\* Eliminated<RillExport>: Ok(()) and nothing else
OnExportEliminated(sd) == sd

\* Eliminated<RillServer>: ctx.shutdown()
OnServerEliminated(sd) == TRUE

\* The branch of TaskEliminated<ReadConfigFile> on is_node_specified():
\* what is spawned at once and where the handler goes on.
AfterConfig(nodeSpecified) ==
    IF nodeSpecified
    THEN [mode |-> "remote", spawn |-> {"engine"}, pc |-> "idle"]
    ELSE [mode |-> "local", spawn |-> {"server"}, pc |-> "wait_public"]

\* What each recv().await of the handler waits for.
Awaited(at) ==
    CASE at = "wait_public"  -> "public"
      [] at = "wait_private" -> "private"
      [] at = "wait_address" -> "address"

\* A slip: the engine is spawned without waiting for the address.
AwaitNextSkipAddress(at) ==
    CASE at = "wait_public"  -> "wait_private"
      [] at = "wait_private" -> "spawn"
      [] at = "wait_address" -> "spawn"

\* Where the handler goes on after a recv().await returned Ok; "spawn":
\* spawn_engine and spawn_exporter, then return.
AwaitNext(at) ==
    CASE at = "wait_public"  -> "wait_private"
      [] at = "wait_private" -> "wait_address"
      [] at = "wait_address" -> "spawn"

SupInit ==
    /\ supPc = "init"
    /\ configTask = "none"
    /\ configResult = "none"
    /\ nodeMode = "unknown"
    /\ child = [c \in Children |-> "none"]
    /\ spawns = [c \in Children |-> 0]
    /\ recvd = {}
    /\ shutdown = FALSE
    /\ handled = {}

(***************************************************************************)
(* Initial values                                                          *)
(***************************************************************************)
HistIdle ==
    /\ hLevels = <<>>
    /\ hState = HistogramNew(<<>>)
    /\ hEvents = <<>>

LogInit ==
    /\ logRecords = <<>>          \* LogState::default()
    /\ logCount = 0
    /\ logSnap = <<>>
    /\ logSnapAt = -1

\* No tracer has been built yet.
TracerInit ==
    /\ mode = [t \in TracerIds |-> "None"]
    /\ tracers = [t \in TracerIds |-> <<>>]
    /\ active = [t \in TracerIds |-> TRUE]
    /\ chan = [t \in TracerIds |-> <<>>]
    /\ rxHeld = [t \in TracerIds |-> FALSE]
    /\ pullState = [t \in TracerIds |-> InitialState]
    /\ poisoned = [t \in TracerIds |-> FALSE]
    /\ weakHeld = [t \in TracerIds |-> FALSE]
    /\ registered = [t \in TracerIds |-> FALSE]
    /\ regLog = [t \in TracerIds |-> <<>>]
    /\ newArgs = [t \in TracerIds |-> NoArgs]
    /\ engineState = [t \in TracerIds |-> InitialState]
    /\ received = [t \in TracerIds |-> <<>>]
    /\ accepted = [t \in TracerIds |-> <<>>]
    /\ calls = 0
    /\ last = NoCall

(***************************************************************************)
(* SpecHistogram: a histogram built from any levels, then Add events.      *)
(***************************************************************************)
InitHistogram ==
    /\ hLevels \in SeqsUpTo(LevelVals, MaxLevels)
    /\ hState = HistogramNew(hLevels)
    /\ hEvents = <<>>
    /\ LogInit
    /\ TracerInit
    /\ PullInit
    /\ SupInit

\* One HistogramMetric::apply call with the event Add(v).
Add(v) ==
    /\ Len(hEvents) < MaxAdds
    /\ hState' = HistApply(hState, v)
    /\ hEvents' = Append(hEvents, v)
    /\ UNCHANGED <<hLevels, logVars, tracerVars, pullVars, supVars>>

NextHistogram == \E v \in AddVals : Add(v)

SpecHistogram == InitHistogram /\ [][NextHistogram]_vars

(***************************************************************************)
(* SpecLog: messages inserted into an initially empty LogState, snapshots  *)
(* taken in between.  The n-th call carries message n and timestamp n, so  *)
(* that every stored record is identifiable; the code never reads either.  *)
(***************************************************************************)
InitLog == HistIdle /\ LogInit /\ TracerInit /\ PullInit /\ SupInit

Aggregate ==
    /\ logCount < MaxLogged
    /\ logRecords' = LogAggregate(logRecords, logCount + 1, logCount + 1)
    /\ logCount' = logCount + 1
    /\ UNCHANGED <<logSnap, logSnapAt, histVars, tracerVars, pullVars,
                   supVars>>

Snapshot ==
    /\ logSnap' = ToSnapshot(logRecords)
    /\ logSnapAt' = logCount
    /\ UNCHANGED <<logRecords, logCount, histVars, tracerVars, pullVars,
                   supVars>>

NextLog == Aggregate \/ Snapshot

SpecLog == InitLog /\ [][NextLog]_vars

(***************************************************************************)
(* Spec: tracers built, cloned, dropped and recorded through, with the     *)
(* collecting engine draining, dropping and failing on the other side.     *)
(***************************************************************************)
Init == HistIdle /\ LogInit /\ TracerInit /\ PullInit /\ SupInit

\* Tracer::new(state, path, pull); pull: a pull interval is given.  The
\* TracerMode descriptor (the state and the receiver, or the Weak) is moved
\* into register_tracer; an Err is logged and new returns the Tracer anyway.
TracerNew(t, path, pull, linkUp) ==
    /\ mode[t] = "None"
    /\ LET description == NewDescription(path)
           modes == NewModes(pull, t)
           this == [active      |-> t,
                    description |-> description,
                    mode        |-> modes.inner_mode]
           reg == RegisterTracer(linkUp)
       IN
       /\ mode' = [mode EXCEPT ![t] = modes.mode]
       /\ tracers' = [tracers EXCEPT ![t] = <<this>>]
       /\ regLog' = [regLog EXCEPT ![t] =
                        Append(@, [description |-> description,
                                   mode        |-> modes.mode])]
       /\ rxHeld' = [rxHeld EXCEPT ![t] =
                        modes.mode = "Push" /\ reg.engineKeepsMode]
       /\ weakHeld' = [weakHeld EXCEPT ![t] =
                        modes.mode = "Pull" /\ reg.engineKeepsMode]
       /\ registered' = [registered EXCEPT ![t] = reg.ok]
    /\ newArgs' = [newArgs EXCEPT ![t] = [path |-> path, pull |-> pull]]
    /\ active' = [active EXCEPT ![t] = ActiveInitial]
    /\ pullState' = [pullState EXCEPT ![t] = InitialState]
    /\ engineState' = [engineState EXCEPT ![t] = InitialState]
    /\ chan' = [chan EXCEPT ![t] = <<>>]
    /\ UNCHANGED <<poisoned, received, accepted, calls, last, histVars, logVars, pullVars, supVars>>

\* impl Clone for Tracer, called on any live Tracer value of the tracer.
TracerClone(t) ==
    /\ handles[t] > 0
    /\ handles[t] < MaxHandles
    /\ \E h \in DOMAIN tracers[t] :
          tracers' = [tracers EXCEPT ![t] = Append(@, CloneTracer(@[h]))]
    /\ UNCHANGED <<mode, active, chan, rxHeld, pullState, poisoned, weakHeld,
                   registered, regLog, newArgs, engineState, received,
                   accepted, calls, last, histVars, logVars, pullVars, supVars>>

\* A Tracer value goes out of scope.
TracerDrop(t) ==
    /\ handles[t] > 0
    /\ \E h \in DOMAIN tracers[t] :
          tracers' = [tracers EXCEPT ![t] = RemoveAt(@, h)]
    /\ UNCHANGED <<mode, active, chan, rxHeld, pullState, poisoned, weakHeld,
                   registered, regLog, newArgs, engineState, received,
                   accepted, calls, last, histVars, logVars, pullVars, supVars>>

\* Tracer::is_active
IsActive(tr) == active[tr.active]

\* Tracer::send(data, opt_system_time) through any live Tracer value; now is
\* what SystemTime::now() would return.
Send(t, amount, opt, now) ==
    /\ handles[t] > 0
    /\ calls < MaxSends
    /\ calls' = calls + 1
    /\ \E h \in DOMAIN tracers[t] :
       LET self == tracers[t][h]
           o == self.mode.target
           ts == MakeTimestamp(opt, now)
           ev == TimedEvent(ts.timestamp, amount, calls + 1)
           call == [t |-> t, tsOk |-> ts.ok,
                    held |-> IF self.mode.kind = "Push"
                             THEN rxHeld[o] ELSE weakHeld[o]]
       IN
       IF ~IsActive(self) THEN
            /\ last' = call @@ [result |-> "inactive"]
            /\ UNCHANGED <<chan, pullState, accepted>>
       ELSE IF ~ts.ok THEN
            /\ last' = call @@ [result |-> "ts_err"]
            /\ UNCHANGED <<chan, pullState, accepted>>
       ELSE IF self.mode.kind = "Push" THEN
            LET r == PushSend(chan[o], rxHeld[o], ev) IN
            /\ chan' = [chan EXCEPT ![o] = r.chan]
            /\ last' = call @@ [result |-> r.result]
            /\ accepted' = IF r.result = "sent"
                           THEN [accepted EXCEPT ![t] = Append(@, ev)]
                           ELSE accepted
            /\ UNCHANGED pullState
       ELSE
            LET r == PullRecord(pullState[o], poisoned[o], weakHeld[o], ev) IN
            /\ pullState' = [pullState EXCEPT ![o] = r.state]
            /\ last' = call @@ [result |-> r.result]
            /\ accepted' = IF r.result = "applied"
                           THEN [accepted EXCEPT ![t] = Append(@, ev)]
                           ELSE accepted
            /\ UNCHANGED chan
    /\ UNCHANGED <<mode, tracers, active, rxHeld, poisoned, weakHeld,
                   registered, regLog, newArgs, engineState, received,
                   histVars, logVars, pullVars, supVars>>

\* The engine takes the first k queued events of a Push tracer and folds
\* them over the state it holds.
EngineDrain(t, k) ==
    /\ mode[t] = "Push" /\ rxHeld[t]
    /\ k \in 1..Len(chan[t])
    /\ LET batch == SubSeq(chan[t], 1, k) IN
       /\ received' = [received EXCEPT ![t] = @ \o batch]
       /\ engineState' = [engineState EXCEPT ![t] = Fold(@, batch)]
       /\ chan' = [chan EXCEPT ![t] = SubSeq(@, k + 1, Len(@))]
    /\ UNCHANGED <<mode, tracers, regLog, newArgs, active, rxHeld, pullState, poisoned, weakHeld,
                   registered, accepted, calls, last, histVars, logVars, pullVars, supVars>>

\* The engine drops the receiver of a Push tracer; what is still queued
\* goes with it.
EngineDropReceiver(t) ==
    /\ mode[t] = "Push" /\ rxHeld[t]
    /\ rxHeld' = [rxHeld EXCEPT ![t] = FALSE]
    /\ chan' = [chan EXCEPT ![t] = <<>>]
    /\ UNCHANGED <<mode, tracers, regLog, newArgs, active, pullState, poisoned, weakHeld,
                   registered, engineState, received, accepted, calls, last,
                   histVars, logVars, pullVars, supVars>>

\* The engine drops its reference to the state of a Pull tracer.
EngineDropState(t) ==
    /\ mode[t] = "Pull" /\ weakHeld[t]
    /\ weakHeld' = [weakHeld EXCEPT ![t] = FALSE]
    /\ UNCHANGED <<mode, tracers, regLog, newArgs, active, chan, rxHeld, pullState, poisoned,
                   registered, engineState, received, accepted, calls, last,
                   histVars, logVars, pullVars, supVars>>

\* A thread of the engine panics while it holds the lock of a Pull tracer's
\* state (it upgraded its Weak, so a Tracer value is still alive).
EnginePanicInLock(t) ==
    /\ mode[t] = "Pull" /\ weakHeld[t] /\ handles[t] > 0
    /\ ~poisoned[t]
    /\ poisoned' = [poisoned EXCEPT ![t] = TRUE]
    /\ UNCHANGED <<mode, tracers, regLog, newArgs, active, chan, rxHeld, pullState, weakHeld,
                   registered, engineState, received, accepted, calls, last,
                   histVars, logVars, pullVars, supVars>>

Next ==
    \/ \E t \in TracerIds, path \in Paths, pull \in BOOLEAN,
          linkUp \in BOOLEAN : TracerNew(t, path, pull, linkUp)
    \/ \E t \in TracerIds : TracerClone(t)
    \/ \E t \in TracerIds : TracerDrop(t)
    \/ \E t \in TracerIds, amount \in EventVals, opt \in OptTimes :
          \E now \in ClockReads(opt) : Send(t, amount, opt, now)
    \/ \E t \in TracerIds, k \in 1..MaxSends : EngineDrain(t, k)
    \/ \E t \in TracerIds : EngineDropReceiver(t)
    \/ \E t \in TracerIds : EngineDropState(t)
    \/ \E t \in TracerIds : EnginePanicInLock(t)

Spec == Init /\ [][Next]_vars

(***************************************************************************)
(* SpecPull: two recorder threads and the collector on two Pull metrics.   *)
(***************************************************************************)
InitPull == HistIdle /\ LogInit /\ TracerInit /\ PullInit /\ SupInit

\* A thread calls Tracer::send on the Pull tracer of metric m (the tracer is
\* active and the timestamp valid) and reaches state.lock().
RecordCall(r, m, v) ==
    /\ pc[r] = "idle"
    /\ started < MaxRecords
    /\ started' = started + 1
    /\ pc' = [pc EXCEPT ![r] = "lock"]
    /\ job' = [job EXCEPT ![r] = [metric |-> m, amount |-> v]]
    /\ UNCHANGED <<lockHolder, shared, applied, snapshot,
                   histVars, logVars, tracerVars, supVars>>

\* The collector's interval for metric m has passed: it goes for the lock.
PollCall(m) ==
    /\ pc[Collector] = "idle"
    /\ pc' = [pc EXCEPT ![Collector] = "lock"]
    /\ job' = [job EXCEPT ![Collector] = [metric |-> m, amount |-> 0]]
    /\ UNCHANGED <<lockHolder, shared, applied, snapshot, started,
                   histVars, logVars, tracerVars, supVars>>

\* state.lock() returns the guard.
LockAcquire(th) ==
    /\ pc[th] = "lock"
    /\ LockFree(lockHolder[job[th].metric])
    /\ lockHolder' = [lockHolder EXCEPT ![job[th].metric] = th]
    /\ pc' = [pc EXCEPT ![th] = IF th \in Recorders THEN "total" ELSE "copy"]
    /\ UNCHANGED <<shared, job, applied, snapshot, started,
                   histVars, logVars, tracerVars, supVars>>

\* T::apply, first statement: state.total.add(amount).
ApplyTotalStep(r) ==
    /\ r \in Recorders /\ pc[r] = "total"
    /\ shared' = [shared EXCEPT ![job[r].metric] = ApplyTotal(@, job[r].amount)]
    /\ pc' = [pc EXCEPT ![r] = "bucket"]
    /\ UNCHANGED <<lockHolder, job, applied, snapshot, started,
                   histVars, logVars, tracerVars, supVars>>

\* T::apply, the bucket loop; apply returns.
ApplyBucketStep(r) ==
    /\ r \in Recorders /\ pc[r] = "bucket"
    /\ shared' = [shared EXCEPT ![job[r].metric] = ApplyBuckets(@, job[r].amount)]
    /\ applied' = [applied EXCEPT ![job[r].metric] =
                       Append(@, [event |-> job[r].amount])]
    /\ pc' = [pc EXCEPT ![r] = "unlock"]
    /\ UNCHANGED <<lockHolder, job, snapshot, started,
                   histVars, logVars, tracerVars, supVars>>

\* The collector copies the state it has locked.
SnapshotCopy ==
    /\ pc[Collector] = "copy"
    /\ snapshot' = [metric |-> job[Collector].metric,
                    state  |-> shared[job[Collector].metric]]
    /\ pc' = [pc EXCEPT ![Collector] = "unlock"]
    /\ UNCHANGED <<lockHolder, shared, job, applied, started,
                   histVars, logVars, tracerVars, supVars>>

\* The guard is dropped and the call returns.
LockRelease(th) ==
    /\ pc[th] = "unlock"
    /\ lockHolder' = [lockHolder EXCEPT ![job[th].metric] = GuardDrop(@)]
    /\ pc' = [pc EXCEPT ![th] = "idle"]
    /\ job' = [job EXCEPT ![th] = NoJob]
    /\ UNCHANGED <<shared, applied, snapshot, started,
                   histVars, logVars, tracerVars, supVars>>

\* The steps a thread takes once it has the lock.
Critical(th) ==
    \/ ApplyTotalStep(th)
    \/ ApplyBucketStep(th)
    \/ (th = Collector /\ SnapshotCopy)
    \/ LockRelease(th)

NextPull ==
    \/ \E r \in Recorders, m \in Metrics, v \in Amounts : RecordCall(r, m, v)
    \/ \E m \in Metrics : PollCall(m)
    \/ \E th \in Threads : LockAcquire(th)
    \/ \E r \in Recorders : ApplyTotalStep(r)
    \/ \E r \in Recorders : ApplyBucketStep(r)
    \/ SnapshotCopy
    \/ \E th \in Threads : LockRelease(th)

SpecPull == InitPull /\ [][NextPull]_vars

\* Fair scheduling: a thread that has the lock keeps running, and a thread
\* that waits for a lock which is free again and again gets it.
SpecPullFair ==
    /\ InitPull /\ [][NextPull]_vars
    /\ \A th \in Threads : WF_vars(Critical(th))
    /\ \A th \in Threads : SF_vars(LockAcquire(th))

(***************************************************************************)
(* SpecSupervisor: the RillRate actor, its config task and its children.   *)
(* A handler takes &mut self, so the actor is in one handler at a time.    *)
(***************************************************************************)
InitSupervisor == HistIdle /\ LogInit /\ TracerInit /\ PullInit /\ SupInit

\* child and spawns after spawn_actor for every child in cs.
Spawned(cs) ==
    [child  |-> [c \in Children |-> IF c \in cs THEN "running" ELSE child[c]],
     spawns |-> [c \in Children |-> IF c \in cs THEN spawns[c] + 1
                                                ELSE spawns[c]]]

\* StartedBy<System>: the termination sequence is set and the
\* ReadConfigFile task spawned.
Started ==
    /\ supPc = "init"
    /\ supPc' = "idle"
    /\ configTask' = "running"
    /\ handled' = handled \cup {"started"}
    /\ UNCHANGED <<configResult, nodeMode, child, spawns, recvd, shutdown,
                   histVars, logVars, tracerVars, pullVars>>

\* The ReadConfigFile task ends: Ok(Some(config)), Ok(None) or Err.
ConfigTaskEnds(result) ==
    /\ configTask = "running"
    /\ configTask' = "done"
    /\ configResult' = result
    /\ UNCHANGED <<supPc, nodeMode, child, spawns, recvd, shutdown, handled,
                   histVars, logVars, tracerVars, pullVars>>

\* TaskEliminated<ReadConfigFile>, up to the first await or to its return;
\* nodeSpecified: engine_config.is_node_specified() of the config read or
\* of the default config.
ConfigEliminated(nodeSpecified) ==
    /\ supPc = "idle"
    /\ configTask = "done"
    /\ "config" \notin handled
    /\ handled' = handled \cup {"config"}
    /\ LET step == AfterConfig(nodeSpecified) IN
       /\ nodeMode' = step.mode
       /\ child' = Spawned(step.spawn).child
       /\ spawns' = Spawned(step.spawn).spawns
       /\ supPc' = step.pc
    /\ UNCHANGED <<configTask, configResult, recvd, shutdown,
                   histVars, logVars, tracerVars, pullVars>>

\* A recv().await of the handler returns Ok: the server has published the
\* endpoint waited for.  After the last one the engine and the exporter are
\* spawned and the handler returns.
EndpointReceived ==
    /\ supPc \in {"wait_public", "wait_private", "wait_address"}
    /\ child["server"] = "running"
    /\ recvd' = recvd \cup {Awaited(supPc)}
    /\ IF AwaitNext(supPc) = "spawn"
       THEN /\ child' = Spawned({"engine", "exporter"}).child
            /\ spawns' = Spawned({"engine", "exporter"}).spawns
            /\ supPc' = "idle"
       ELSE /\ supPc' = AwaitNext(supPc)
            /\ UNCHANGED <<child, spawns>>
    /\ UNCHANGED <<configTask, configResult, nodeMode, shutdown, handled,
                   histVars, logVars, tracerVars, pullVars>>

\* A recv().await of the handler returns Err (the server is gone): `?`
\* returns from the handler.
EndpointFailed ==
    /\ supPc \in {"wait_public", "wait_private", "wait_address"}
    /\ child["server"] = "finished"
    /\ supPc' = "idle"
    /\ UNCHANGED <<configTask, configResult, nodeMode, child, spawns, recvd,
                   shutdown, handled, histVars, logVars, tracerVars, pullVars>>

\* InterruptedBy<System>
Interrupted ==
    /\ supPc = "idle"
    /\ "interrupt" \notin handled
    /\ handled' = handled \cup {"interrupt"}
    /\ shutdown' = OnInterrupted(shutdown)
    /\ UNCHANGED <<supPc, configTask, configResult, nodeMode, child, spawns,
                   recvd, histVars, logVars, tracerVars, pullVars>>

\* A child actor ends, by itself or because it is told to.
ChildEnds(c) ==
    /\ child[c] = "running"
    /\ child' = [child EXCEPT ![c] = "finished"]
    /\ UNCHANGED <<supPc, configTask, configResult, nodeMode, spawns, recvd,
                   shutdown, handled, histVars, logVars, tracerVars, pullVars>>

\* Eliminated<RillEngine>, Eliminated<RillServer>, Eliminated<RillExport>
Eliminated(c) ==
    /\ supPc = "idle"
    /\ child[c] = "finished"
    /\ child' = [child EXCEPT ![c] = "reaped"]
    /\ handled' = handled \cup {c}
    /\ shutdown' = CASE c = "engine"   -> OnEngineEliminated(shutdown)
                     [] c = "exporter" -> OnExportEliminated(shutdown)
                     [] c = "server"   -> OnServerEliminated(shutdown)
    /\ UNCHANGED <<supPc, configTask, configResult, nodeMode, spawns, recvd,
                   histVars, logVars, tracerVars, pullVars>>

NextSupervisor ==
    \/ Started
    \/ \E result \in ConfigResults : ConfigTaskEnds(result)
    \/ \E nodeSpecified \in BOOLEAN : ConfigEliminated(nodeSpecified)
    \/ EndpointReceived
    \/ EndpointFailed
    \/ Interrupted
    \/ \E c \in Children : ChildEnds(c)
    \/ \E c \in Children : Eliminated(c)

SpecSupervisor == InitSupervisor /\ [][NextSupervisor]_vars

(***************************************************************************)
(* Claims about the histogram                                              *)
(***************************************************************************)
RECURSIVE SumOver(_, _, _)
SumOver(buckets, keys, field) ==
    IF keys = {} THEN 0
    ELSE LET k == MinOf(keys) IN
         IF field = "count"
         THEN buckets[k].count + SumOver(buckets, keys \ {k}, field)
         ELSE FAdd(buckets[k].sum, SumOver(buckets, keys \ {k}, field))

\* The bucket the claim names for value v: the smallest level L with v <= L,
\* and the +infinity bucket for a value above every configured level.
TargetBucket(keys, v) ==
    IF \E l \in keys : v <= l THEN MinOf({l \in keys : v <= l}) ELSE INFINITY

ChangedBuckets ==
    {k \in DOMAIN hState.buckets : hState'.buckets[k] # hState.buckets[k]}

\* C1: every Add(v) changes exactly one bucket, the one with the smallest
\* level L such that v <= L, and no other bucket.
C1_ExactlyOneBucket ==
    [][Len(hEvents') = Len(hEvents) + 1 =>
          /\ DOMAIN hState'.buckets = DOMAIN hState.buckets
          /\ ChangedBuckets =
                {TargetBucket(DOMAIN hState.buckets, hEvents'[Len(hEvents')])}
      ]_vars

\* C2: after N Add events total.count = N, the bucket counts add up to
\* total.count and the bucket sums add up to total.sum.
C2_Conservation ==
    /\ hState.total.count = Len(hEvents)
    /\ SumOver(hState.buckets, DOMAIN hState.buckets, "count") = hState.total.count
    /\ SumOver(hState.buckets, DOMAIN hState.buckets, "sum") = hState.total.sum

\* C17: the bucket keys are exactly the distinct levels given plus +infinity
\* (a single +infinity bucket also when +infinity is among the levels), all
\* buckets start at sum 0 and count 0, and no apply adds or removes a key.
C17_BucketSetFixed ==
    /\ DOMAIN hState.buckets = Range(hLevels) \cup {INFINITY}
    /\ INFINITY \in DOMAIN hState.buckets
    /\ hEvents = <<>> =>
          /\ hState.total = StatDefault
          /\ \A k \in DOMAIN hState.buckets : hState.buckets[k] = StatDefault

\* Levels that name +infinity themselves beside a finite level, after two
\* events: two buckets.
C17_Witness ==
    /\ Len(hLevels) = 2 /\ hLevels[1] = INFINITY /\ hLevels[2] = 2
    /\ Len(hEvents) >= 2
    /\ Cardinality(DOMAIN hState.buckets) = 2

(***************************************************************************)
(* Claims about the log                                                    *)
(***************************************************************************)
Min2(a, b) == IF a < b THEN a ELSE b

\* The last k of the n messages inserted so far, oldest first.
LastMessages(n, k) == [i \in 1..k |-> RillEvent(n - k + i, n - k + i)]

\* C3: a snapshot taken after n insertions is exactly the last min(n, 20)
\* messages in insertion order, oldest first.
C3_SnapshotLast20 ==
    logSnapAt >= 0 => logSnap = LastMessages(logSnapAt, Min2(logSnapAt, FRAME_SIZE))

\* C4: the buffer never holds more than FRAME_SIZE = 20 records.
C4_LogBounded == Len(logRecords) <= FRAME_SIZE

(***************************************************************************)
(* Claims about the tracer                                                 *)
(***************************************************************************)
SendStep == calls' = calls + 1
LastOf(s) == s[Len(s)]
IsPrefix(p, s) == Len(p) <= Len(s) /\ SubSeq(s, 1, Len(p)) = p

C7_UnregisteredDropsAll ==
    \A t \in TracerIds :
        (mode[t] # "None" /\ ~registered[t]) =>
            /\ chan[t] = <<>> /\ received[t] = <<>>
            /\ ~rxHeld[t] /\ ~weakHeld[t]
            /\ mode[t] = "Push" => accepted[t] = <<>>
            /\ (handles[t] > 0 /\ calls < MaxSends) =>
                  ENABLED (\E amount \in EventVals : Send(t, amount, <<>>, 1))

\* A Push tracer without engine through which several events were recorded,
\* the last one just dropped.
C7_Witness ==
    \E t \in TracerIds :
        /\ mode[t] = "Push" /\ ~registered[t]
        /\ calls >= 3 /\ last.t = t /\ last.tsOk /\ last.result = "send_err"

\* One of the non-fatal failures meets the call that has just been made.
SendFails(t) ==
    \/ ~last'.tsOk
    \/ mode[t] = "Push" /\ ~rxHeld[t]
    \/ mode[t] = "Pull" /\ poisoned[t]

\* C8: a record call that meets an invalid timestamp, a dropped receiver or
\* a poisoned mutex returns normally, loses only its own event and leaves
\* the channel, the state and the tracer as they were; a call that meets
\* none of them is queued (Push) or applied (Pull).
C8_RecordNeverFails ==
    [][\A t \in TracerIds :
          (SendStep /\ last'.t = t) =>
             /\ SendFails(t) =>
                   /\ last'.result \in {"ts_err", "send_err", "lock_err"}
                   /\ UNCHANGED <<chan, pullState, accepted, received,
                                  engineState, mode, handles, active, rxHeld,
                                  poisoned, weakHeld, registered>>
             /\ ~SendFails(t) =>
                   /\ Len(accepted'[t]) = Len(accepted[t]) + 1
                   /\ IF mode[t] = "Push"
                      THEN /\ last'.result = "sent"
                           /\ chan'[t] = Append(chan[t], LastOf(accepted'[t]))
                           /\ pullState' = pullState
                      ELSE /\ last'.result = "applied"
                           /\ pullState'[t] =
                                 HistApply(pullState[t], LastOf(accepted'[t]).event)
                           /\ chan' = chan
      ]_vars

\* A call that lost its event to an invalid timestamp, and a later call on
\* the same tracer that was delivered.
C8_Witness ==
    \E t \in TracerIds :
        /\ last.t = t /\ last.result \in {"sent", "applied"}
        /\ calls >= 2 /\ Len(accepted[t]) < calls
        /\ Len(accepted[t]) >= 1

\* C9: the consumer dequeues the events of a Push tracer in the order in
\* which their sends completed: what it has received is a prefix of the
\* accepted events, and the queue holds the rest in the same order.
C9_PushFifo ==
    \A t \in TracerIds :
        mode[t] = "Push" =>
            /\ IsPrefix(received[t], accepted[t])
            /\ rxHeld[t] => received[t] \o chan[t] = accepted[t]
            /\ \A i, j \in DOMAIN received[t] :
                  i < j => received[t][i].seq < received[t][j].seq

\* A Push tracer with a clone: two different events have been dequeued and
\* another one is still queued.
C9_Witness ==
    \E t \in TracerIds :
        /\ mode[t] = "Push" /\ handles[t] = 2
        /\ Len(received[t]) >= 2 /\ Len(chan[t]) >= 1
        /\ received[t][1].event # received[t][2].event

\* C10: the state of a Pull tracer is the fold of apply over the events
\* recorded, and so is the state the engine holds for a Push tracer once it
\* has drained the channel, however the drain was batched.
C10_ModeEquivalence ==
    \A t \in TracerIds :
        /\ mode[t] = "Pull" => pullState[t] = Fold(InitialState, accepted[t])
        /\ mode[t] = "Push" =>
              /\ engineState[t] = Fold(InitialState, received[t])
              /\ (rxHeld[t] /\ chan[t] = <<>>) =>
                    engineState[t] = Fold(InitialState, accepted[t])

\* A Push tracer whose three or more events, not all equal, have all been
\* drained.
C10_Witness ==
    \E t \in TracerIds :
        /\ mode[t] = "Push" /\ rxHeld[t] /\ chan[t] = <<>>
        /\ Len(accepted[t]) >= 3 /\ received[t] = accepted[t]
        /\ \E i, j \in DOMAIN accepted[t] :
              accepted[t][i].event # accepted[t][j].event

\* C11: Tracer::new builds a Pull tracer exactly when a pull interval is
\* given and a Push tracer otherwise; the mode of a built tracer never
\* changes, and every live Tracer value, clones included, has that mode.
C11_ModeFixed ==
    [][\A t \in TracerIds :
          /\ mode'[t] # "None" =>
                /\ mode'[t] = IF newArgs'[t].pull THEN "Pull" ELSE "Push"
                /\ \A h \in DOMAIN tracers'[t] :
                      tracers'[t][h].mode.kind = mode'[t]
          /\ mode[t] # "None" =>
                /\ mode'[t] = mode[t]
                /\ newArgs'[t] = newArgs[t]
      ]_vars

\* A tracer built with a pull interval, cloned, and recorded through.
C11_Witness ==
    \E t \in TracerIds :
        /\ newArgs[t].pull /\ mode[t] = "Pull" /\ handles[t] = 2
        /\ calls >= 2 /\ Len(accepted[t]) >= 1

\* C12: register_tracer is called once for a tracer, in Tracer::new and in
\* no other operation; new returns the Tracer whether or not the call
\* succeeded; the description handed over carries the stream type of the
\* metric and the path that every Tracer value reports through path().
C12_RegisteredOnceInNew ==
    [][\A t \in TracerIds :
          /\ mode'[t] = "None" => regLog'[t] = <<>>
          /\ mode'[t] # "None" =>
                /\ Len(regLog'[t]) = 1
                /\ regLog'[t][1].description.stream_type = HistogramStreamType
                /\ regLog'[t][1].description.path = newArgs'[t].path
                /\ \A h \in DOMAIN tracers'[t] :
                      Path(tracers'[t][h]) = regLog'[t][1].description.path
          /\ regLog'[t] # regLog[t] =>
                /\ mode[t] = "None" /\ mode'[t] # "None"
                /\ handles'[t] = 1
                /\ calls' = calls
      ]_vars

\* A tracer whose registration failed: new returned it all the same, it
\* was cloned and recorded through, and the link was called once.
C12_Witness ==
    \E t \in TracerIds :
        /\ ~registered[t] /\ Len(regLog[t]) = 1
        /\ handles[t] = 2 /\ calls >= 2

\* C13: what the consumer has dequeued from a Push tracer, and what is
\* still queued, are events of completed sends, each there once; a send that
\* failed leaves nothing behind; and a record call is possible whatever the
\* length of the queue.
C13_PushAtMostOnce ==
    \A t \in TracerIds :
        mode[t] = "Push" =>
            LET out == received[t] \o chan[t] IN
            /\ \A i, j \in DOMAIN out : i # j => out[i].seq # out[j].seq
            /\ \A i \in DOMAIN out :
                  /\ out[i].seq \in 1..calls
                  /\ \E k \in DOMAIN accepted[t] : accepted[t][k] = out[i]
            /\ \A i, j \in DOMAIN accepted[t] :
                  i # j => accepted[t][i].seq # accepted[t][j].seq
            /\ (last.t = t /\ last.result = "send_err") =>
                  \A i \in DOMAIN out : out[i].seq # calls
            /\ (handles[t] > 0 /\ calls < MaxSends) =>
                  ENABLED (\E amount \in EventVals : Send(t, amount, <<>>, 1))

\* Events were dequeued, then the receiver was dropped with an event still
\* queued, then a send failed.
C13_Witness ==
    \E t \in TracerIds :
        /\ mode[t] = "Push" /\ registered[t] /\ ~rxHeld[t]
        /\ Len(received[t]) >= 1 /\ Len(accepted[t]) > Len(received[t])
        /\ last.t = t /\ last.tsOk /\ last.result = "send_err"

\* C16: a clone is a copy of a live Tracer value: it points to the channel
\* or state, the watch channel and the description of the original, and
\* making it creates or changes no channel and no state; all live values
\* report the same path and the same activation; an event recorded through
\* any of them goes to the one channel or state of the tracer.
C16_ClonesShare ==
    [][\A t \in TracerIds :
          /\ \A h \in DOMAIN tracers'[t] :
                /\ tracers'[t][h].mode = [kind |-> mode'[t], target |-> t]
                /\ tracers'[t][h].active = t
                /\ Path(tracers'[t][h]) = newArgs'[t].path
          /\ \A g, h \in DOMAIN tracers'[t] :
                /\ Path(tracers'[t][g]) = Path(tracers'[t][h])
                /\ active'[tracers'[t][g].active] = active'[tracers'[t][h].active]
          /\ (handles[t] > 0 /\ handles'[t] = handles[t] + 1) =>
                /\ \E h \in DOMAIN tracers[t] :
                      tracers'[t] = Append(tracers[t], tracers[t][h])
                /\ UNCHANGED <<mode, active, chan, rxHeld, pullState, poisoned,
                               weakHeld, engineState, received, accepted>>
          /\ (SendStep /\ last'.t = t /\ last'.result = "sent") =>
                chan'[t] = Append(chan[t], LastOf(accepted'[t]))
          /\ (SendStep /\ last'.t = t /\ last'.result = "applied") =>
                pullState'[t] =
                    HistApply(pullState[t], LastOf(accepted'[t]).event)
      ]_vars

\* A Push tracer with a clone and two events in its one queue.
C16_Witness ==
    \E t \in TracerIds :
        /\ mode[t] = "Push" /\ handles[t] = 2
        /\ Len(chan[t]) >= 2 /\ last.result = "sent"

WholeStates(m) ==
    {Fold(InitialState, SubSeq(applied[m], 1, n)) : n \in 0..Len(applied[m])}

\* The locks a thread holds.
LocksOf(th) == {m \in Metrics : lockHolder[m] = th}

\* C14: apply runs as a whole under the lock of its metric: a thread is
\* inside apply only while it holds the lock, every copy the collector takes
\* is the state after a whole number of applied events (never a total
\* without its bucket), and whenever the lock is free the state is the fold
\* of all the events applied, none lost.
C14_PullAtomic ==
    /\ \A r \in Recorders :
          pc[r] \in {"total", "bucket", "unlock"} =>
              lockHolder[job[r].metric] = r
    /\ pc[Collector] \in {"copy", "unlock"} =>
          lockHolder[job[Collector].metric] = Collector
    /\ snapshot # NoSnapshot =>
          snapshot.state \in WholeStates(snapshot.metric)
    /\ pc[Collector] = "copy" =>
          shared[job[Collector].metric] =
              Fold(InitialState, applied[job[Collector].metric])
    /\ \A m \in Metrics :
          lockHolder[m] = NoThread =>
              shared[m] = Fold(InitialState, applied[m])

\* The collector has copied metric x after an event and is back for the
\* lock, while a recorder is between the two steps of apply on x.
C14_Witness ==
    /\ snapshot.metric = "x" /\ snapshot.state # InitialState
    /\ pc["r2"] = "bucket" /\ job["r2"].metric = "x"
    /\ pc[Collector] = "lock" /\ job[Collector].metric = "x"
    /\ shared["x"] \notin WholeStates("x")

\* Some thread that is in a call can take a step.
Progress ==
    \/ \E th \in Threads : pc[th] \in {"total", "bucket", "copy", "unlock"}
    \/ \E th \in Threads :
          pc[th] = "lock" /\ lockHolder[job[th].metric] = NoThread

\* C15: a thread holds at most one lock, holds none while it waits for one
\* or after its call has returned, and every lock is held by a thread that
\* is in its critical section; whenever a thread waits, some thread can
\* step; and under fair scheduling every record call that has started
\* returns.
C15_PullDeadlockFree ==
    /\ [](\A th \in Threads :
            /\ Cardinality(LocksOf(th)) <= 1
            /\ pc[th] \in {"idle", "lock"} => LocksOf(th) = {})
    /\ []((\E th \in Threads : pc[th] = "lock") => Progress)
    /\ \A r \in Recorders : (pc[r] = "lock") ~> (pc[r] = "idle")

\* One recorder holds the lock of x, the other waits for it, and the
\* collector holds the lock of y.
C15_Witness ==
    /\ pc["r1"] = "total" /\ job["r1"].metric = "x"
    /\ pc["r2"] = "lock" /\ job["r2"].metric = "x"
    /\ pc[Collector] = "copy" /\ job[Collector].metric = "y"

(***************************************************************************)
(* Claims about the supervisor                                             *)
(***************************************************************************)
\* Handler h runs in this step.
Handles(h) == h \notin handled /\ h \in handled'

\* C19: the handlers for the interrupt by System, for the end of the engine
\* and for the end of the server call shutdown; no other step does, and the
\* handler for the end of the exporter leaves the supervisor as it is.
C19_ShutdownTriggers ==
    [][/\ (Handles("interrupt") \/ Handles("engine") \/ Handles("server"))
             => shutdown'
       /\ Handles("exporter") => shutdown' = shutdown
       /\ (shutdown' /\ ~shutdown) =>
             (Handles("interrupt") \/ Handles("engine") \/ Handles("server"))
      ]_vars

\* The exporter has ended and its end was handled; the engine and the
\* server run on and no shutdown was called.
C19_Witness ==
    /\ "exporter" \in handled /\ child["exporter"] = "reaped"
    /\ child["engine"] = "running" /\ child["server"] = "running"
    /\ ~shutdown

\* C20: no child is spawned before the handler for the end of the config
\* task runs, which is after the task has ended; each child is spawned at
\* most once; with a local node the engine and the exporter are spawned
\* only after the server was spawned and the public endpoint, the private
\* endpoint and the address were received; with a remote node the engine
\* is spawned and the server and the exporter never are.
C20_StartupOrder ==
    /\ "config" \in handled => configTask = "done"
    /\ "config" \notin handled =>
          /\ \A c \in Children : spawns[c] = 0 /\ child[c] = "none"
          /\ nodeMode = "unknown"
    /\ \A c \in Children : spawns[c] <= 1
    /\ nodeMode = "local" =>
          /\ spawns["server"] = 1
          /\ (spawns["engine"] > 0 \/ spawns["exporter"] > 0) => recvd = Endpoints
    /\ nodeMode = "remote" =>
          /\ spawns["engine"] = 1
          /\ spawns["server"] = 0 /\ spawns["exporter"] = 0
          /\ recvd = {}

\* The config task failed, the default config names no node: the server
\* was spawned, the three values received, the engine and exporter spawned.
C20_Witness ==
    /\ configResult = "error" /\ nodeMode = "local"
    /\ recvd = Endpoints
    /\ child["server"] = "running"
    /\ child["engine"] = "running" /\ child["exporter"] = "running"

=============================================================================
